---------------------------- MODULE Spec2Model ----------------------------
(***************************************************************************)
(* A model of two parts of evalml:                                         *)
(*   - SequentialEngine / SequentialComputation                            *)
(*       src/evalml/automl/engine/sequential_engine.py                     *)
(*   - PolynomialDecomposer                                                *)
(*       src/evalml/pipelines/components/transformers/preprocessing/       *)
(*       polynomial_decomposer.py                                          *)
(* Each part has its own specification (SpecEngine, SpecDecomposer); the   *)
(* variables of the other part keep their initial values.                  *)
(***************************************************************************)
EXTENDS Integers, Sequences, FiniteSets, TLC

VARIABLES
    computations,   \* the SequentialComputation objects created so far
    invoked,        \* invoked[i]: how often computations[i].work has run
    history,        \* history[i]: the get_result and cancel calls made on i
    last_call,      \* the most recent engine call and what it returned
    decomposer,     \* the attributes of one PolynomialDecomposer
    lastFit,        \* the index of the series of the most recent successful fit
    cleanFits,      \* no fit with a target has failed so far
    last            \* the most recent decomposer call and its outcome

engineVars == <<computations, invoked, history, last_call>>
decomposerVars == <<decomposer, lastFit, cleanFits, last>>
vars == <<computations, invoked, history, last_call,
          decomposer, lastFit, cleanFits, last>>

None == "None"

(***************************************************************************)
(* Bounds of the engine model.                                             *)
(***************************************************************************)
MaxComputations == 2
MaxCalls == 3

(***************************************************************************)
(* The engine's inputs.  A pipeline is known by its name, an AutoMLData    *)
(* by the fields the engine reads.                                         *)
(***************************************************************************)
Pipelines == {[name |-> "p1"], [name |-> "p2"]}

AutoMLData ==
    {[X_train |-> "X_train", y_train |-> "y_train",
      optimize_thresholds |-> TRUE, objective |-> "objective"]}

ScoringObjectives == {<<"o1">>}

get_objective(o) == <<"instance", o>>

(***************************************************************************)
(* The call of work with kwargs.  work is a function of engine_base        *)
(* (of = None) or the bound method score of a pipeline (of = its name).    *)
(* Whether the pipeline operation raises is decided by the pipeline and    *)
(* the data, outside the engine.                                           *)
(***************************************************************************)
Call(work, kwargs, raises) ==
    IF raises
    THEN [raised |-> TRUE, value |-> <<"error", work, kwargs>>]
    ELSE [raised |-> FALSE, value |-> <<"result", work, kwargs>>]

(***************************************************************************)
(* SequentialComputation.  Every method gives the object after the call,   *)
(* what the call returns and whether it invoked the work.                  *)
(***************************************************************************)
SequentialComputation_eager(work, kwargs) ==
    [self |-> [work |-> work, kwargs |-> kwargs, meta_data |-> <<>>],
     invoked |-> TRUE]

SequentialComputation(work, kwargs) ==
    [self |-> [work |-> work, kwargs |-> kwargs, meta_data |-> <<>>],
     invoked |-> FALSE]

done_eager_only(self, runs) == runs > 0

done(self, runs) == TRUE

get_result(self, raises) ==
    [self |-> self,
     ret |-> Call(self.work, self.kwargs, raises),
     invoked |-> TRUE]

cancel_drops_work(self) ==
    [self |-> [self EXCEPT !.work.fn = "cancelled"], ret |-> None, invoked |-> FALSE]

cancel(self) ==
    [self |-> self, ret |-> None, invoked |-> FALSE]

(***************************************************************************)
(* SequentialEngine.submit_*: each builds one computation.                 *)
(***************************************************************************)
submit_evaluation_job(automl_data, pipeline) ==
    SequentialComputation([fn |-> "evaluate_pipeline", of |-> None],
        [pipeline |-> pipeline, automl_data |-> automl_data,
         X |-> automl_data.X_train, y |-> automl_data.y_train,
         logger |-> "job_log"])

submit_training_job(automl_data, pipeline) ==
    SequentialComputation([fn |-> "train_pipeline", of |-> None],
        [pipeline |-> pipeline,
         X |-> automl_data.X_train, y |-> automl_data.y_train,
         optimize_thresholds |-> automl_data.optimize_thresholds,
         objective |-> automl_data.objective])

submit_scoring_job(automl_data, pipeline, X, y, objectives) ==
    LET computation ==
            SequentialComputation([fn |-> "score", of |-> pipeline.name],
                [X |-> X, y |-> y,
                 objectives |-> [i \in DOMAIN objectives |->
                                     get_objective(objectives[i])]])
    IN [computation EXCEPT
            !.self.meta_data = ("pipeline_name" :> pipeline.name)]

(***************************************************************************)
(* Engine actions.  history[i] remembers the computation as submit_*       *)
(* returned it and counts the calls made on it; MaxCalls caps the          *)
(* get_result and cancel calls of a run.                                   *)
(***************************************************************************)
RECURSIVE CallsMade(_)
CallsMade(i) ==
    IF i = 0 THEN 0
    ELSE history[i].gets + history[i].cancels + CallsMade(i - 1)

\* The computation a submit_* call returns joins those the caller holds.
Registered(made) ==
    [computations |-> Append(computations, made.self),
     invoked |-> Append(invoked, IF made.invoked THEN 1 ELSE 0),
     history |-> Append(history, [made |-> made.self, gets |-> 0,
                                  cancels |-> 0, raised |-> FALSE])]

SubmitEvaluation ==
    \E d \in AutoMLData, p \in Pipelines :
        LET made == submit_evaluation_job(d, p) IN
        /\ Len(computations) < MaxComputations
        /\ computations' = Registered(made).computations
        /\ invoked' = Registered(made).invoked
        /\ history' = Registered(made).history
        /\ last_call' = [op |-> "submit_evaluation_job",
                         id |-> Len(computations) + 1, ret |-> made.self]
        /\ UNCHANGED decomposerVars

SubmitTraining ==
    \E d \in AutoMLData, p \in Pipelines :
        LET made == submit_training_job(d, p) IN
        /\ Len(computations) < MaxComputations
        /\ computations' = Registered(made).computations
        /\ invoked' = Registered(made).invoked
        /\ history' = Registered(made).history
        /\ last_call' = [op |-> "submit_training_job",
                         id |-> Len(computations) + 1, ret |-> made.self]
        /\ UNCHANGED decomposerVars

SubmitScoring ==
    \E d \in AutoMLData, p \in Pipelines, o \in ScoringObjectives :
        LET made == submit_scoring_job(d, p, "X", "y", o) IN
        /\ Len(computations) < MaxComputations
        /\ computations' = Registered(made).computations
        /\ invoked' = Registered(made).invoked
        /\ history' = Registered(made).history
        /\ last_call' = [op |-> "submit_scoring_job",
                         id |-> Len(computations) + 1, ret |-> made.self]
        /\ UNCHANGED decomposerVars

Done ==
    \E i \in DOMAIN computations :
        /\ last_call' = [op |-> "done", id |-> i,
                         ret |-> done(computations[i], invoked[i])]
        /\ UNCHANGED <<computations, invoked, history>>
        /\ UNCHANGED decomposerVars

GetResult ==
    \E i \in DOMAIN computations, raises \in BOOLEAN :
        LET r == get_result(computations[i], raises) IN
        /\ CallsMade(Len(history)) < MaxCalls
        /\ computations' = [computations EXCEPT ![i] = r.self]
        /\ invoked' = [invoked EXCEPT ![i] = @ + (IF r.invoked THEN 1 ELSE 0)]
        /\ history' = [history EXCEPT ![i].gets = @ + 1,
                                      ![i].raised = @ \/ r.ret.raised]
        /\ last_call' = [op |-> "get_result", id |-> i, ret |-> r.ret]
        /\ UNCHANGED decomposerVars

Cancel ==
    \E i \in DOMAIN computations :
        LET r == cancel(computations[i]) IN
        /\ CallsMade(Len(history)) < MaxCalls
        /\ computations' = [computations EXCEPT ![i] = r.self]
        /\ invoked' = [invoked EXCEPT ![i] = @ + (IF r.invoked THEN 1 ELSE 0)]
        /\ history' = [history EXCEPT ![i].cancels = @ + 1]
        /\ last_call' = [op |-> "cancel", id |-> i, ret |-> r.ret]
        /\ UNCHANGED decomposerVars

InitDecomposerIdle ==
    /\ decomposer = None
    /\ lastFit = None
    /\ cleanFits = TRUE
    /\ last = None

InitEngine ==
    /\ computations = <<>>
    /\ invoked = <<>>
    /\ history = <<>>
    /\ last_call = [op |-> "__init__", id |-> 0, ret |-> None]
    /\ InitDecomposerIdle

NextEngine ==
    \/ SubmitEvaluation
    \/ SubmitTraining
    \/ SubmitScoring
    \/ Done
    \/ GetResult
    \/ Cancel

SpecEngine == InitEngine /\ [][NextEngine]_vars

(***************************************************************************)
(* PolynomialDecomposer.                                                   *)
(*                                                                         *)
(* A series is its index and its values: kind is the type of the index,    *)
(* freq the index's freqstr (None without one), start the first label (the *)
(* day number of the first timestamp of a DatetimeIndex), vals the values. *)
(* A target of None is the series of kind NoneType.                        *)
(***************************************************************************)
MaxLen == 15
MaxStart == 8
MaxAmplitude == 1

Min(a, b) == IF a < b THEN a ELSE b

NoneSeries == [kind |-> "NoneType", freq |-> None, start |-> 0, vals |-> <<>>]

IsNone(y) == y.kind = "NoneType"

IsDatetimeIndex(y) == y.kind = "DatetimeIndex"

TargetValues(n) == [i \in 1..n |-> 2 * i]

Series(kind, freq, start, n) ==
    [kind |-> kind, freq |-> freq, start |-> start, vals |-> TargetValues(n)]

\* The period statsmodels gives a frequency: 7 for daily, 5 for business-day
\* data; it raises ValueError for a frequency it has no period for.
freq_supported(freq) == freq \in {"D", "B"}

freq_to_period(freq) == IF freq = "D" THEN 7 ELSE 5

\* The targets given to fit and fit_transform: daily data one value short
\* of two weeks and longer, business-day and minute data, and data without
\* a DatetimeIndex.
FitSeries ==
    {Series("DatetimeIndex", "D", 0, n) :
        n \in {2 * freq_to_period("D") - 1, MaxLen}}
    \cup {Series("DatetimeIndex", "B", 0, MaxLen),
          Series("DatetimeIndex", "T", 0, MaxLen)}
    \cup {Series("RangeIndex", None, 0, n) : n \in {2, MaxLen}}

\* The targets given to transform and inverse_transform: daily data of
\* every length and every first day up to MaxStart, and one series of every
\* other kind of index.
TargetSeries ==
    {Series("DatetimeIndex", "D", st, n) : st \in 0..MaxStart, n \in 1..MaxLen}
    \cup {Series("DatetimeIndex", "B", 0, MaxLen),
          Series("DatetimeIndex", "T", 0, MaxLen),
          Series("DatetimeIndex", None, 0, MaxLen)}
    \cup {Series("RangeIndex", None, 0, n) : n \in {1, MaxLen}}

Features == {"X"}

(***************************************************************************)
(* numpy and pandas helpers, as the decomposer uses them.                  *)
(***************************************************************************)
zeros(n) == [i \in 1..n |-> 0]

tile(a, reps) == [i \in 1..(Len(a) * reps) |-> a[((i - 1) % Len(a)) + 1]]

roll(a, shift) == [i \in 1..Len(a) |-> a[((i - 1 + shift) % Len(a)) + 1]]

slice(a, n) == SubSeq(a, 1, Min(n, Len(a)))

\* a + sign * b, element for element; an array of one element is broadcast,
\* any other difference in length is a ValueError.
broadcasts(a, b) == Len(b) = Len(a) \/ Len(b) = 1

combine(a, b, sign) ==
    [i \in 1..Len(a) |-> a[i] + sign * (IF Len(b) = 1 THEN b[1] ELSE b[i])]

(***************************************************************************)
(* sktime's Detrender over a PolynomialTrendForecaster: fit keeps a trend  *)
(* line, transform subtracts it at the labels of the series it is given    *)
(* and inverse_transform adds it back.  The targets drawn here are linear, *)
(* so the least-squares line is the line through their end points.         *)
(***************************************************************************)
Unfitted == [fitted |-> FALSE, origin |-> 0, intercept |-> 0, slope |-> 0]

Detrender_fit(y) ==
    [fitted |-> TRUE, origin |-> y.start, intercept |-> y.vals[1],
     slope |-> IF Len(y.vals) >= 2
               THEN (y.vals[Len(y.vals)] - y.vals[1]) \div (Len(y.vals) - 1)
               ELSE 0]

trend(obj, t) == obj.intercept + obj.slope * (t - obj.origin)

Detrender_transform(obj, y) ==
    [i \in 1..Len(y.vals) |-> y.vals[i] - trend(obj, y.start + i - 1)]

Detrender_inverse_transform(obj, y) ==
    [i \in 1..Len(y.vals) |-> y.vals[i] + trend(obj, y.start + i - 1)]

(***************************************************************************)
(* statsmodels' seasonal_decompose(x).seasonal: one period of averages     *)
(* that sum to zero, repeated over the length of x.  Which averages depends*)
(* on the data; amplitude picks among the patterns the model tries.  It    *)
(* raises ValueError for fewer than two complete cycles.                   *)
(***************************************************************************)
has_two_cycles(n, period) == n >= 2 * period

seasonal_decompose(n, period, amplitude) ==
    tile([j \in 1..period |->
              IF j = 1 THEN amplitude * (period - 1) ELSE 0 - amplitude],
         (n \div period) + 1)

(***************************************************************************)
(* The decomposer's attributes.  __init__ sets only the component object;  *)
(* frequency, periodicity and seasonality are not attributes until fit     *)
(* assigns them: <<>> is an attribute that is not set, <<v>> one set to v. *)
(***************************************************************************)
PolynomialDecomposer ==
    [component_obj |-> Unfitted, frequency |-> <<>>, periodicity |-> <<>>,
     seasonality |-> <<>>]

Raise(self, error) == [self |-> self, err |-> error, ret |-> None]

Return(self, value) == [self |-> self, err |-> "none", ret |-> value]

\* fit, lines 87-103: the target is not None.
fit_target(self, X, y, amplitude) ==
    LET fitted == [self EXCEPT !.component_obj = Detrender_fit(y)] IN
    IF IsDatetimeIndex(y)
    THEN LET s1 == [fitted EXCEPT !.frequency = <<y.freq>>] IN
         IF ~freq_supported(y.freq) THEN Raise(s1, "ValueError")
         ELSE
         LET s2 == [s1 EXCEPT !.periodicity = <<freq_to_period(y.freq)>>] IN
         IF ~has_two_cycles(Len(y.vals), s2.periodicity[1])
         THEN Raise(s2, "ValueError")
         ELSE Return(
                [s2 EXCEPT !.seasonality =
                    <<[type |-> "Series", start |-> y.start,
                       vals |-> slice(seasonal_decompose(Len(y.vals),
                                          s2.periodicity[1], amplitude),
                                      s2.periodicity[1])]>>],
                "self")
    ELSE Return(
           [fitted EXCEPT !.seasonality =
               <<[type |-> "ndarray", start |-> 0,
                  vals |-> zeros(Len(y.vals))]>>],
           "self")

fit_resets_first(self, X, y, amplitude) ==
    IF IsNone(y)
    THEN Raise([self EXCEPT !.component_obj = Unfitted], "ValueError")
    ELSE fit_target(self, X, y, amplitude)

fit(self, X, y, amplitude) ==
    IF IsNone(y) THEN Raise(self, "ValueError")
    ELSE fit_target(self, X, y, amplitude)

\* The seasonal signal transform repeats over n detrended values.
transform_seasonal_floor(self, n) ==
    slice(tile(self.seasonality[1].vals, n \div self.periodicity[1]), n)

transform_seasonal(self, n) ==
    slice(tile(self.seasonality[1].vals, (n \div self.periodicity[1]) + 1), n)

transform(self, X, y) ==
    IF IsNone(y) THEN Return(self, <<X, y>>)
    ELSE IF IsDatetimeIndex(y) /\ self.frequency = <<>>
    THEN Raise(self, "AttributeError")
    ELSE IF IsDatetimeIndex(y) /\ y.freq # self.frequency[1]
    THEN Raise(self, "ValueError")
    ELSE IF ~self.component_obj.fitted THEN Raise(self, "NotFittedError")
    ELSE
    LET y_detrended == Detrender_transform(self.component_obj, y) IN
    IF IsDatetimeIndex(y) /\ (self.seasonality = <<>> \/ self.periodicity = <<>>)
    THEN Raise(self, "AttributeError")
    ELSE
    LET seasonal ==
            IF IsDatetimeIndex(y)
            THEN transform_seasonal(self, Len(y_detrended))
            ELSE zeros(Len(y.vals))
    IN IF ~broadcasts(y_detrended, seasonal) THEN Raise(self, "ValueError")
       ELSE Return(self, <<X, [y EXCEPT !.vals =
                                   combine(y_detrended, seasonal, -1)]>>)

fit_transform(self, X, y, amplitude) ==
    LET fitted == fit(self, X, y, amplitude) IN
    IF fitted.err # "none" THEN fitted
    ELSE transform(fitted.self, X, y)

inverse_transform(self, y) ==
    IF IsNone(y) THEN Raise(self, "ValueError")
    ELSE IF ~self.component_obj.fitted THEN Raise(self, "NotFittedError")
    ELSE
    LET y_retrended == Detrender_inverse_transform(self.component_obj, y) IN
    IF self.seasonality = <<>> \/ self.seasonality[1].type # "Series"
    THEN Raise(self, "AttributeError")
    ELSE IF ~IsDatetimeIndex(y) THEN Raise(self, "TypeError")
    ELSE
    LET first_index_diff == y.start - self.seasonality[1].start IN
    IF self.frequency = <<>> THEN Raise(self, "AttributeError")
    ELSE IF self.frequency[1] # "D" THEN Raise(self, "UnboundLocalError")
    ELSE
    LET period == self.periodicity[1]
        transform_first_ind == first_index_diff % period
        seasonal ==
            slice(tile(roll(self.seasonality[1].vals, transform_first_ind),
                       (Len(y.vals) \div self.periodicity[1]) + 1),
                  Len(y.vals))
    IN IF ~broadcasts(y_retrended, seasonal) THEN Raise(self, "ValueError")
       ELSE Return(self, [y EXCEPT !.vals = combine(y_retrended, seasonal, 1)])

(***************************************************************************)
(* get_trend_dataframe.  X is known by its index (a series without a use   *)
(* for its values); y is a Series, a DataFrame with the columns given, or  *)
(* something else, and shares X's index.                                   *)
(***************************************************************************)
Targets ==
    {[type |-> "Series", columns |-> <<"y">>],
     [type |-> "DataFrame", columns |-> <<>>],
     [type |-> "DataFrame", columns |-> <<"b", "a">>],
     [type |-> "ndarray", columns |-> <<>>]}

FeatureIndexes ==
    {Series("DatetimeIndex", f, 0, n) :
        f \in {"D", "T", None}, n \in {2 * freq_to_period("D") - 1, MaxLen}}
    \cup {Series("RangeIndex", None, 0, MaxLen)}

\* _decompose_target: fits a clone of the forecaster, then seasonal_decompose.
decompose_target_fits_own(self, X, colname) ==
    IF ~freq_supported(X.freq)
          \/ ~has_two_cycles(Len(X.vals), freq_to_period(X.freq))
    THEN Raise([self EXCEPT !.component_obj = Detrender_fit(X)], "ValueError")
    ELSE Return([self EXCEPT !.component_obj = Detrender_fit(X)],
                [target |-> colname, rows |-> Len(X.vals),
                 columns |-> <<"trend", "seasonality", "residual">>])

decompose_target(self, X, colname) ==
    IF ~freq_supported(X.freq)
          \/ ~has_two_cycles(Len(X.vals), freq_to_period(X.freq))
    THEN Raise(self, "ValueError")
    ELSE Return(self,
                [target |-> colname, rows |-> Len(X.vals),
                 columns |-> <<"trend", "seasonality", "residual">>])

RECURSIVE decompose_targets(_, _, _, _)
decompose_targets(self, X, columns, result_dfs) ==
    IF columns = <<>> THEN Return(self, result_dfs)
    ELSE LET one == decompose_target(self, X, Head(columns)) IN
         IF one.err # "none" THEN one
         ELSE decompose_targets(one.self, X, Tail(columns),
                                Append(result_dfs, one.ret))

get_trend_dataframe(self, X, y) ==
    IF ~IsDatetimeIndex(X) THEN Raise(self, "TypeError")
    ELSE IF X.freq = None THEN Raise(self, "ValueError")
    ELSE IF y.type = "Series"
    THEN decompose_targets(self, X, y.columns, <<>>)
    ELSE IF y.type = "DataFrame"
    THEN decompose_targets(self, X, y.columns, <<>>)
    ELSE Raise(self, "TypeError")

(***************************************************************************)
(* Decomposer actions.  last keeps the call, its arguments, the attributes *)
(* before it and its outcome; of, for an inverse_transform given the       *)
(* target a transform has just returned, is the target of that transform.  *)
(***************************************************************************)
IndexOf(y) == [kind |-> y.kind, freq |-> y.freq, start |-> y.start,
               len |-> Len(y.vals)]

Outcome(op, X, y, r, of) ==
    /\ decomposer' = r.self
    /\ last' = [op |-> op, X |-> X, y |-> y, before |-> decomposer,
                err |-> r.err, ret |-> r.ret, of |-> of]

Fitting(op, y, r) ==
    /\ lastFit' = IF r.err = "none" THEN IndexOf(y) ELSE lastFit
    /\ cleanFits' = (cleanFits /\ (r.err = "none" \/ IsNone(y)))

Fit ==
    \E X \in Features, y \in FitSeries \cup {NoneSeries},
       amplitude \in 0..MaxAmplitude :
        LET r == fit(decomposer, X, y, amplitude) IN
        /\ Outcome("fit", X, y, r, NoneSeries)
        /\ Fitting("fit", y, r)
        /\ UNCHANGED engineVars

FitTransform ==
    \E X \in Features, y \in FitSeries \cup {NoneSeries},
       amplitude \in 0..MaxAmplitude :
        LET r == fit_transform(decomposer, X, y, amplitude) IN
        /\ Outcome("fit_transform", X, y, r, NoneSeries)
        /\ Fitting("fit_transform", y,
                   fit(decomposer, X, y, amplitude))
        /\ UNCHANGED engineVars

Transform ==
    \E X \in Features, y \in TargetSeries \cup {NoneSeries} :
        /\ Outcome("transform", X, y, transform(decomposer, X, y), NoneSeries)
        /\ UNCHANGED <<lastFit, cleanFits>>
        /\ UNCHANGED engineVars

Transformed ==
    last.op \in {"transform", "fit_transform"} /\ last.err = "none"
        /\ ~IsNone(last.y)

InverseTransform ==
    \/ \E y \in TargetSeries \cup {NoneSeries} :
        /\ Outcome("inverse_transform", "X", y,
                   inverse_transform(decomposer, y), NoneSeries)
        /\ UNCHANGED <<lastFit, cleanFits>>
        /\ UNCHANGED engineVars
    \/ /\ Transformed
       /\ Outcome("inverse_transform", "X", last.ret[2],
                  inverse_transform(decomposer, last.ret[2]), last.y)
       /\ UNCHANGED <<lastFit, cleanFits>>
       /\ UNCHANGED engineVars

GetTrendDataframe ==
    \E X \in FeatureIndexes, y \in Targets :
        /\ Outcome("get_trend_dataframe", X, y,
                   get_trend_dataframe(decomposer, X, y), NoneSeries)
        /\ UNCHANGED <<lastFit, cleanFits>>
        /\ UNCHANGED engineVars

InitEngineIdle ==
    /\ computations = <<>>
    /\ invoked = <<>>
    /\ history = <<>>
    /\ last_call = [op |-> "__init__", id |-> 0, ret |-> None]

InitDecomposer ==
    /\ decomposer = PolynomialDecomposer
    /\ lastFit = IndexOf(NoneSeries)
    /\ cleanFits = TRUE
    /\ last = [op |-> "__init__", X |-> "X", y |-> NoneSeries,
               before |-> PolynomialDecomposer, err |-> "none",
               ret |-> None, of |-> NoneSeries]
    /\ InitEngineIdle

NextDecomposer ==
    \/ Fit
    \/ FitTransform
    \/ Transform
    \/ InverseTransform
    \/ GetTrendDataframe

SpecDecomposer == InitDecomposer /\ [][NextDecomposer]_vars

(***************************************************************************)
(* C1: done() returns True in every reachable state of a computation:      *)
(* right after submit_*, before any get_result(), after get_result() calls *)
(* (also ones whose work raised) and after cancel() calls.                 *)
(***************************************************************************)
C1_DoneAlwaysTrue ==
    /\ \A i \in DOMAIN computations : done(computations[i], invoked[i]) = TRUE
    /\ last_call.op = "done" => last_call.ret = TRUE

C1_Witness ==
    /\ last_call.op = "done"
    /\ last_call.ret = TRUE
    /\ history[last_call.id].raised
    /\ history[last_call.id].cancels >= 1
    /\ \E j \in DOMAIN computations : history[j].gets = 0 /\ invoked[j] = 0

(***************************************************************************)
(* C2 as stated: the pipeline operation of every submitted computation has *)
(* been executed exactly once from the moment submit_* returns.            *)
(***************************************************************************)
C2_ExecutedOnceAtSubmit ==
    \A i \in DOMAIN computations : invoked[i] = 1

(***************************************************************************)
(* C2 amended: submit_* does not execute the pipeline operation; every     *)
(* get_result() call executes it exactly once, so a computation's work has *)
(* run as often as get_result() was called on it (zero times when          *)
(* submit_* returns), while done() reports True throughout.                *)
(***************************************************************************)
C2_ExecutedOncePerGetResult ==
    /\ \A i \in DOMAIN computations : invoked[i] = history[i].gets
    /\ last_call.op \in {"submit_evaluation_job", "submit_training_job",
                         "submit_scoring_job"}
          => /\ invoked[last_call.id] = 0
             /\ done(computations[last_call.id], invoked[last_call.id])

C2_Witness ==
    \E i, j \in DOMAIN computations :
        /\ history[i].gets = 2 /\ invoked[i] = 2
        /\ history[j].gets = 0 /\ invoked[j] = 0
        /\ computations[j].work = [fn |-> "score", of |-> "p2"]

(***************************************************************************)
(* C6: cancel() has no effect: it returns None, leaves work, kwargs and    *)
(* meta_data as submit_* made them, never invokes the work, and a later    *)
(* get_result() still calls the work with the kwargs given at construction *)
(* and hands back that call's result or failure.                           *)
(***************************************************************************)
C6_CancelNoEffect ==
    /\ last_call.op = "cancel" => last_call.ret = None
    /\ \A i \in DOMAIN computations :
          /\ history[i].cancels >= 1 =>
                /\ computations[i] = history[i].made
                /\ invoked[i] = history[i].gets
    /\ last_call.op = "get_result" =>
          \E raises \in BOOLEAN :
              last_call.ret = Call(history[last_call.id].made.work,
                                   history[last_call.id].made.kwargs, raises)

C6_Witness ==
    /\ last_call.op = "get_result"
    /\ history[last_call.id].cancels >= 2
    /\ invoked[last_call.id] = 1
    /\ last_call.ret.raised


(***************************************************************************)
(* What the claims about the decomposer speak of.                          *)
(***************************************************************************)
\* Every fit with a target has succeeded, and there was one.
FittedCleanly == cleanFits /\ lastFit.kind # "NoneType"

\* The target's frequency is that of the index of the most recent fit.
MatchesLastFit(y) == lastFit.kind = "DatetimeIndex" /\ y.freq = lastFit.freq

(***************************************************************************)
(* C3: a missing target is an immediate failure with no partial effect:    *)
(* fit(X, None), fit_transform(X, None) and inverse_transform(None) raise  *)
(* ValueError in any state of the decomposer and leave the detrender, the  *)
(* frequency, the periodicity and the seasonality as they were.            *)
(***************************************************************************)
C3_MissingTargetFails ==
    (last.op \in {"fit", "fit_transform", "inverse_transform"}
        /\ IsNone(last.y))
    => /\ last.err = "ValueError"
       /\ decomposer = last.before

C3_Witness ==
    /\ last.op = "fit_transform"
    /\ IsNone(last.y)
    /\ last.err = "ValueError"
    /\ last.before.component_obj.fitted
    /\ last.before.seasonality # <<>>

(***************************************************************************)
(* C4 as stated: after successful fits, transform(X, y) raises ValueError  *)
(* whenever y has a DatetimeIndex whose frequency is not the frequency of  *)
(* the index of the most recent fit (also when that fit's data had no      *)
(* DatetimeIndex), raises nothing for a matching frequency, and a failed   *)
(* call changes no fitted state.                                           *)
(***************************************************************************)
C4_MismatchRaises ==
    (last.op = "transform" /\ FittedCleanly /\ IsDatetimeIndex(last.y))
    => /\ MatchesLastFit(last.y) => last.err = "none"
       /\ ~MatchesLastFit(last.y) => last.err = "ValueError"
       /\ last.err # "none" => decomposer = last.before

(***************************************************************************)
(* C5 as stated: for a decomposer fitted on daily data and a daily target  *)
(* y, whatever the offset of y's first day from the first day of the       *)
(* fitted series, inverse_transform(transform(X, y)[1]) is y.              *)
(***************************************************************************)
C5_RoundTrip ==
    (last.op = "inverse_transform" /\ ~IsNone(last.of) /\ FittedCleanly
        /\ lastFit.kind = "DatetimeIndex" /\ lastFit.freq = "D"
        /\ IsDatetimeIndex(last.of) /\ last.of.freq = "D")
    => /\ last.err = "none"
       /\ last.ret = last.of

(***************************************************************************)
(* C7 as stated: get_trend_dataframe(X, y) fails with TypeError when X's   *)
(* index is not a DatetimeIndex, with ValueError when that index has no    *)
(* frequency, with TypeError when y is neither a Series nor a DataFrame;   *)
(* otherwise it returns one frame per target, in column order; it never    *)
(* changes the decomposer's fitted state.                                  *)
(***************************************************************************)
FramesPerTarget(ret, y) ==
    /\ Len(ret) = Len(y.columns)
    /\ \A i \in DOMAIN ret :
          /\ ret[i].target = y.columns[i]
          /\ ret[i].columns = <<"trend", "seasonality", "residual">>

C7_TrendDataframeErrors ==
    last.op = "get_trend_dataframe"
    => /\ decomposer = last.before
       /\ IF ~IsDatetimeIndex(last.X) THEN last.err = "TypeError"
          ELSE IF last.X.freq = None THEN last.err = "ValueError"
          ELSE IF last.y.type \notin {"Series", "DataFrame"}
          THEN last.err = "TypeError"
          ELSE last.err = "none" /\ FramesPerTarget(last.ret, last.y)

(***************************************************************************)
(* C7 amended: the three argument errors are as stated, checked in that    *)
(* order; otherwise, when seasonal_decompose rejects a target (the index   *)
(* frequency has no known period, or the target holds fewer than two full  *)
(* periods) the call fails with ValueError, and when it rejects none the   *)
(* call returns one frame per target, in column order; in every case the   *)
(* decomposer's fitted state is unchanged.                                 *)
(***************************************************************************)
Decomposable(X) ==
    freq_supported(X.freq) /\ Len(X.vals) >= 2 * freq_to_period(X.freq)

C7_TrendDataframeErrorsAmended ==
    last.op = "get_trend_dataframe"
    => /\ decomposer = last.before
       /\ IF ~IsDatetimeIndex(last.X) THEN last.err = "TypeError"
          ELSE IF last.X.freq = None THEN last.err = "ValueError"
          ELSE IF last.y.type \notin {"Series", "DataFrame"}
          THEN last.err = "TypeError"
          ELSE IF last.y.columns # <<>> /\ ~Decomposable(last.X)
          THEN last.err = "ValueError"
          ELSE last.err = "none" /\ FramesPerTarget(last.ret, last.y)

C7_Witness ==
    /\ last.op = "get_trend_dataframe"
    /\ last.before.component_obj.fitted
    /\ last.y.type = "DataFrame"
    /\ last.err = "none"
    /\ Len(last.ret) = 2

(***************************************************************************)
(* C8: transform(X, y) on a fitted decomposer returns X unmodified and a   *)
(* series with y's index and length whose element i is detrended(y)[i]     *)
(* minus seasonality[i mod periodicity] when y has a DatetimeIndex (of the *)
(* fitted frequency), and minus 0 when it has none; transform(X, None)     *)
(* returns (X, None) without error.  Neither touches the fitted state.     *)
(***************************************************************************)
C8_TransformResult ==
    /\ (last.op = "transform" /\ IsNone(last.y))
       => /\ last.err = "none"
          /\ last.ret = <<last.X, NoneSeries>>
          /\ decomposer = last.before
    /\ (last.op = "transform" /\ ~IsNone(last.y) /\ FittedCleanly
            /\ (IsDatetimeIndex(last.y) => MatchesLastFit(last.y)))
       => /\ last.err = "none"
          /\ decomposer = last.before
          /\ last.ret[1] = last.X
          /\ IndexOf(last.ret[2]) = IndexOf(last.y)
          /\ \A i \in 1..Len(last.y.vals) :
                last.ret[2].vals[i] =
                    Detrender_transform(last.before.component_obj, last.y)[i]
                    - (IF IsDatetimeIndex(last.y)
                       THEN last.before.seasonality[1].vals[
                                ((i - 1) % last.before.periodicity[1]) + 1]
                       ELSE 0)

C8_Witness ==
    /\ last.op = "transform"
    /\ FittedCleanly
    /\ IsDatetimeIndex(last.y)
    /\ last.err = "none"
    /\ Len(last.y.vals) = 2 * last.before.periodicity[1]
    /\ last.before.seasonality[1].vals[1] # 0
    /\ last.ret[2].vals # Detrender_transform(last.before.component_obj, last.y)

(***************************************************************************)
(* C9 as stated: after successful fits the remembered frequency,           *)
(* periodicity and seasonality all come from the most recent fit: for a    *)
(* series with a DatetimeIndex, its frequency, that frequency's period and *)
(* a seasonality of exactly periodicity entries; for a series without one, *)
(* no frequency or periodicity of an earlier fit remains.                  *)
(***************************************************************************)
C9_StateFromLastFit ==
    FittedCleanly
    => IF lastFit.kind = "DatetimeIndex"
       THEN /\ decomposer.frequency = <<lastFit.freq>>
            /\ decomposer.periodicity = <<freq_to_period(lastFit.freq)>>
            /\ decomposer.seasonality # <<>>
            /\ Len(decomposer.seasonality[1].vals) = decomposer.periodicity[1]
       ELSE /\ decomposer.frequency = <<>>
            /\ decomposer.periodicity = <<>>
            /\ decomposer.seasonality # <<>>
            /\ decomposer.seasonality[1].type = "ndarray"

(***************************************************************************)
(* C10 as stated: inverse_transform(y) with a target is defined in every   *)
(* fitted state, whatever the frequency of the fitted series and also when *)
(* it had no DatetimeIndex: it returns a series with y's index and length. *)
(***************************************************************************)
C10_InverseDefined ==
    (last.op = "inverse_transform" /\ ~IsNone(last.y) /\ FittedCleanly)
    => /\ last.err = "none"
       /\ IndexOf(last.ret) = IndexOf(last.y)

=============================================================================
